---- MODULE Spec2Model ----
(***************************************************************************)
(* Model of the meal logger (src/main.py, src/db.py).                      *)
(*                                                                         *)
(* Nine specifications share the module:                                   *)
(*   SpecEval    - analyze_meal_macros applied to a meal and a target      *)
(*                 profile drawn from bounded sets;                        *)
(*   SpecAgg     - the daily totals of one day's meal rows;                *)
(*   SpecWeek    - one run of the Insights tab: the target profile is      *)
(*                 read, the daily rows are grouped by week and every      *)
(*                 week is compared with the weekly goals;                 *)
(*   Spec        - the Log Meals tab of one session: previews, reruns,     *)
(*                 modifications and the Save button with save_meals on    *)
(*                 the days/meals tables;                                  *)
(*   SpecHistory - one session that saves, lists the history and deletes   *)
(*                 meals and days, over stores with legacy rows;           *)
(*   SpecSave    - two sessions of one user whose save_meals and delete    *)
(*                 calls interleave;                                       *)
(*   SpecTargets - the targets table and the sessions that call            *)
(*                 save_user_targets;                                      *)
(*   SpecMerge   - the entry merger of the single-entry-per-day variant,   *)
(*                 applied to two submissions in both orders;              *)
(*   SpecAuth    - the logins and logouts of two sessions.                 *)
(*                                                                         *)
(* Numbers: Python floats are modelled as exact rationals [num, den]; on   *)
(* the bounded inputs used here the float comparisons of the source agree  *)
(* with the exact ones, the boundary cases included.                       *)
(***************************************************************************)
EXTENDS Integers, Sequences, FiniteSets, TLC

VARIABLES
    meal,            \* analyze_meal_macros: the meal argument
    daily_targets,   \* analyze_meal_macros: the daily_targets argument
    evaluations,     \* analyze_meal_macros: its result (NotCalled before the call)
    meals_response,  \* the meal rows selected for one day
    totals,          \* the four daily totals computed from meals_response
    daily_rows,      \* Insights tab: the per-day totals, sorted by date
    weekly_df,       \* Insights tab: the weekly groups
    targets_response,\* Insights tab: what the select on 'targets' gives
    user_targets,    \* Insights tab: what get_user_targets returned
    week_insights,   \* Insights tab: the rows of the weekly table
    insights,        \* Insights tab: how the run ended and what it displayed
    days,            \* table 'days'
    meals,           \* table 'meals'
    next_id,         \* the next serial id of each table
    sess,            \* per session: the position inside save_meals and its locals
    targets_table,   \* table 'targets'
    targets_next_id, \* the next serial id of table 'targets'
    tsess,           \* per session: the position inside save_user_targets
    stored_ab,       \* entry merger: the stored entry when A is merged before B
    stored_ba,       \* entry merger: the stored entry when B is merged before A
    incoming,        \* entry merger: the two submissions A and B and the merges done
    session_state,   \* per session: authenticated, user and user_password
    accounts         \* the password of each account of the auth service

vars == <<meal, daily_targets, evaluations, meals_response, totals,
          daily_rows, weekly_df, targets_response, user_targets, week_insights,
          insights, days, meals, next_id, sess, targets_table, targets_next_id,
          tsess,
          stored_ab, stored_ba, incoming, session_state, accounts>>

evalVars == <<meal, daily_targets, evaluations>>
aggVars == <<meals_response, totals>>
weekVars == <<daily_rows, weekly_df, targets_response, user_targets,
              week_insights, insights>>
storeVars == <<days, meals, next_id, sess>>
targetVars == <<targets_table, targets_next_id, tsess>>
mergeVars == <<stored_ab, stored_ba, incoming>>
authVars == <<session_state, accounts>>

\* Python's None
None == <<>>

(***************************************************************************)
(* Exact rationals standing for the floats of the source.                  *)
(***************************************************************************)
RECURSIVE GCD(_, _)
GCD(a, b) == IF b = 0 THEN a ELSE GCD(b, a % b)
Abs(n) == IF n < 0 THEN -n ELSE n
\* the fraction n / d, d > 0, in lowest terms
Rat(n, d) == LET g == GCD(Abs(n), d) IN [num |-> n \div g, den |-> d \div g]
\* x / y for y # 0
Div(x, y) == IF y > 0 THEN Rat(x, y) ELSE Rat(-x, -y)
\* r * k for an integer k
Times(r, k) == Rat(r.num * k, r.den)
\* r * (n / d): the product with a decimal literal such as 0.67 = 67/100
TimesLit(r, n, d) == Rat(r.num * n, r.den * d)
Lt(a, b) == a.num * b.den < b.num * a.den
Gt(a, b) == Lt(b, a)
Le(a, b) == ~Lt(b, a)
Zero == Rat(0, 1)
IsZero(r) == r.num = 0

(***************************************************************************)
(* analyze_meal_macros, src/main.py 199-265                                *)
(***************************************************************************)
Red == "#ff9999"
Grey == "#666666"
Green == "#99cc99"
\* the 'direction' entries: the arrows and None
Up == "up"
Down == "down"
NoDirection == "none"

ZeroDivisionError == [raised |-> "ZeroDivisionError"]

\* NeutralEvaluations with the carbs entry coloured like an on-target macro
NeutralEvaluations_GreenCarbs ==
    [calories |-> [percent |-> [num |-> 0, den |-> 1], color |-> "#666666", direction |-> "none"],
     protein  |-> [percent |-> [num |-> 0, den |-> 1], color |-> "#666666", direction |-> "none"],
     fat      |-> [percent |-> [num |-> 0, den |-> 1], color |-> "#666666", direction |-> "none"],
     carbs    |-> [percent |-> [num |-> 0, den |-> 1], color |-> "#99cc99", direction |-> "none"]]

NeutralEvaluations ==
    [calories |-> [percent |-> Zero, color |-> Grey, direction |-> NoDirection],
     protein  |-> [percent |-> Zero, color |-> Grey, direction |-> NoDirection],
     fat      |-> [percent |-> Zero, color |-> Grey, direction |-> NoDirection],
     carbs    |-> [percent |-> Zero, color |-> Grey, direction |-> NoDirection]]

\* CaloriesEvaluation with the lower end of the no-direction band exclusive
CaloriesEvaluation_StrictBand(cal_percent) ==
    [percent   |-> cal_percent,
     color     |-> IF Gt(cal_percent, Rat(35, 1)) THEN Red
                   ELSE IF Gt(cal_percent, Rat(20, 1)) THEN Grey
                   ELSE Green,
     direction |-> IF Gt(cal_percent, Rat(35, 1)) THEN Up
                   ELSE IF Lt(Rat(20, 1), cal_percent) /\ Le(cal_percent, Rat(35, 1))
                        THEN NoDirection
                   ELSE Down]

CaloriesEvaluation(cal_percent) ==
    [percent   |-> cal_percent,
     color     |-> IF Gt(cal_percent, Rat(35, 1)) THEN Red
                   ELSE IF Gt(cal_percent, Rat(20, 1)) THEN Grey
                   ELSE Green,
     direction |-> IF Gt(cal_percent, Rat(35, 1)) THEN Up
                   ELSE IF Le(Rat(20, 1), cal_percent) /\ Le(cal_percent, Rat(35, 1))
                        THEN NoDirection
                   ELSE Down]

ProteinEvaluation(protein_cal_ratio, target_protein_ratio) ==
    [percent   |-> protein_cal_ratio,
     color     |-> IF Lt(protein_cal_ratio, TimesLit(target_protein_ratio, 67, 100)) THEN Red
                   ELSE IF Lt(protein_cal_ratio, target_protein_ratio) THEN Grey
                   ELSE Green,
     direction |-> IF Lt(protein_cal_ratio, TimesLit(target_protein_ratio, 67, 100)) THEN Down
                   ELSE NoDirection]

FatEvaluation(fat_cal_ratio, target_fat_ratio) ==
    [percent   |-> fat_cal_ratio,
     color     |-> IF Gt(fat_cal_ratio, TimesLit(target_fat_ratio, 14, 10)) THEN Red
                   ELSE IF Gt(fat_cal_ratio, target_fat_ratio) THEN Grey
                   ELSE Green,
     direction |-> IF Gt(fat_cal_ratio, TimesLit(target_fat_ratio, 14, 10)) THEN Up
                   ELSE NoDirection]

CarbsEvaluation(carb_cal_ratio, target_carb_ratio) ==
    [percent   |-> carb_cal_ratio,
     color     |-> IF Gt(carb_cal_ratio, TimesLit(target_carb_ratio, 14, 10)) THEN Red
                   ELSE IF Gt(carb_cal_ratio, target_carb_ratio) THEN Grey
                   ELSE Green,
     direction |-> IF Gt(carb_cal_ratio, TimesLit(target_carb_ratio, 14, 10)) THEN Up
                   ELSE NoDirection]

\* MealCalRatio with the zero guard replaced by a denominator of at least 1
MealCalRatio_ClampedDenominator(m, kcals) ==
    Times(Div(kcals, IF m.calories > 0 THEN m.calories ELSE 1), 100)

\* the share of the meal's calories that comes from kcals, 0 for a meal of 0 kcal
MealCalRatio(m, kcals) ==
    IF m.calories > 0 THEN Times(Div(kcals, m.calories), 100) ELSE Zero

analyze_meal_macros(m, targets) ==
    IF targets = None THEN NeutralEvaluations
    ELSE IF targets.calories = 0 THEN ZeroDivisionError
    ELSE
        LET cal_percent == Times(Div(m.calories, targets.calories), 100)
            target_cals == targets.calories
            target_protein_cals == targets.protein * 4
            target_fat_cals == targets.fat * 9
            target_carb_cals == targets.carbs * 4
            meal_protein_cals == m.protein * 4
            meal_fat_cals == m.fat * 9
            meal_carb_cals == m.carbohydrates * 4
            protein_cal_ratio == MealCalRatio(m, meal_protein_cals)
            fat_cal_ratio == MealCalRatio(m, meal_fat_cals)
            carb_cal_ratio == MealCalRatio(m, meal_carb_cals)
            target_protein_ratio == Times(Div(target_protein_cals, target_cals), 100)
            target_fat_ratio == Times(Div(target_fat_cals, target_cals), 100)
            target_carb_ratio == Times(Div(target_carb_cals, target_cals), 100)
        IN  [calories |-> CaloriesEvaluation(cal_percent),
             protein  |-> ProteinEvaluation(protein_cal_ratio, target_protein_ratio),
             fat      |-> FatEvaluation(fat_cal_ratio, target_fat_ratio),
             carbs    |-> CarbsEvaluation(carb_cal_ratio, target_carb_ratio)]

(***************************************************************************)
(* Inputs of SpecEval.                                                     *)
(***************************************************************************)
MaxMealCalUnits == 8
MaxGramUnits == 7

MealCalories == {100 * k : k \in 0..MaxMealCalUnits}
MealGrams == {10 * k : k \in 0..MaxGramUnits}

Meals ==
    [calories : MealCalories, protein : MealGrams, fat : MealGrams,
     carbohydrates : MealGrams]

\* profiles the targets form accepts: every field is a number >= 0
TargetProfiles ==
    [calories : {0, 2000, 2010}, protein : {0, 150}, fat : {70, 250},
     carbs : {0, 250}]

NotCalled == [called |-> FALSE]

InitEvalVars ==
    /\ meal \in Meals
    /\ daily_targets \in TargetProfiles \cup {None}
    /\ evaluations = NotCalled

IdleEvalVars ==
    /\ meal = None
    /\ daily_targets = None
    /\ evaluations = NotCalled

\* one call analyze_meal_macros(meal, daily_targets)
Analyze ==
    /\ evaluations = NotCalled
    /\ evaluations' = analyze_meal_macros(meal, daily_targets)
    /\ UNCHANGED <<meal, daily_targets>>
    /\ UNCHANGED <<aggVars, weekVars, storeVars, targetVars, mergeVars, authVars>>

(***************************************************************************)
(* Daily totals, src/main.py 783-787 and 945-948.                          *)
(* A column value of a row is None or Num(n); a row may lack a key.        *)
(***************************************************************************)
Num(n) == <<n>>
Val(v) == v[1]

\* dict.get(key, default)
PyGet(row, key, default) == IF key \in DOMAIN row THEN row[key] ELSE default
\* a or b, for a a number or None
PyOr(a, b) == IF a = None \/ a = Num(0) THEN b ELSE a

\* sum(meal.get(key, 0) or 0 for meal in rows)
RECURSIVE SumField(_, _)
SumField(rows, key) ==
    IF rows = <<>> THEN 0
    ELSE Val(PyOr(PyGet(Head(rows), key, Num(0)), Num(0))) + SumField(Tail(rows), key)

\* DailyTotals reading the carbohydrate grams under the key 'carbs'
DailyTotals_CarbsKey(rows) ==
    [calories |-> SumField(rows, "calories"),
     protein  |-> SumField(rows, "protein"),
     fat      |-> SumField(rows, "fat"),
     carbs    |-> SumField(rows, "carbs")]

\* total_calories, total_protein, total_fat, total_carbs
DailyTotals(rows) ==
    [calories |-> SumField(rows, "calories"),
     protein  |-> SumField(rows, "protein"),
     fat      |-> SumField(rows, "fat"),
     carbs    |-> SumField(rows, "carbohydrates")]

MaxMealsPerDay == 2

NutritionKeys == {"calories", "protein", "fat", "carbohydrates"}
\* the value a nutrition column holds when it is present and not NULL
ColumnValue == [calories |-> 300, protein |-> 10, fat |-> 5, carbohydrates |-> 50]
\* the rows a select on 'meals' can return, legacy rows with NULL or absent
\* nutrition columns included
MealRows ==
    UNION {{[k \in S |-> IF k \in N THEN None ELSE Num(ColumnValue[k])] : N \in SUBSET S} :
              S \in SUBSET NutritionKeys}

InitAggVars ==
    /\ meals_response \in UNION {[1..n -> MealRows] : n \in 0..MaxMealsPerDay}
    /\ totals = None

\* the four sums over one day's meals_response
ComputeTotals ==
    /\ totals = None
    /\ totals' = DailyTotals(meals_response)
    /\ UNCHANGED meals_response
    /\ UNCHANGED <<evalVars, weekVars, storeVars, targetVars, mergeVars, authVars>>

(***************************************************************************)
(* The Insights tab, src/main.py 906-1079, with get_user_targets, src/main.py *)
(* 617-635.  A date is [y, m, d]; a string is a sequence of one-character  *)
(* strings.                                                                *)
(***************************************************************************)
Date(y, m, d) == [y |-> y, m |-> m, d |-> d]

IsLeap(y) == y % 4 = 0 /\ (y % 100 # 0 \/ y % 400 = 0)
DaysInMonth(y, m) ==
    IF m = 2 THEN (IF IsLeap(y) THEN 29 ELSE 28)
    ELSE IF m \in {4, 6, 9, 11} THEN 30
    ELSE 31
RECURSIVE DaysBeforeMonth(_, _)
DaysBeforeMonth(y, m) ==
    IF m = 1 THEN 0 ELSE DaysBeforeMonth(y, m - 1) + DaysInMonth(y, m - 1)
DaysBeforeYear(y) ==
    (y - 1) * 365 + ((y - 1) \div 4) - ((y - 1) \div 100) + ((y - 1) \div 400)
\* proleptic Gregorian ordinal, 0001-01-01 (a Monday) is day 1
ToOrdinal(dt) == DaysBeforeYear(dt.y) + DaysBeforeMonth(dt.y, dt.m) + dt.d

\* ordinal of the Monday that starts ISO week 1 of year y
IsoWeek1Monday(y) ==
    LET firstday == DaysBeforeYear(y) + 1
        firstweekday == (firstday + 6) % 7
        week1monday == firstday - firstweekday
    IN  IF firstweekday > 3 THEN week1monday + 7 ELSE week1monday

\* isocalendar taking the year of the date for the ISO year
isocalendar_CalendarYear(dt) ==
    LET today == ToOrdinal(dt)
        week == (today - IsoWeek1Monday(dt.y)) \div 7
    IN  IF week < 0
        THEN [year |-> dt.y,
              week |-> ((today - IsoWeek1Monday(dt.y - 1)) \div 7) + 1]
        ELSE IF week >= 52 /\ today >= IsoWeek1Monday(dt.y + 1)
        THEN [year |-> dt.y, week |-> 1]
        ELSE [year |-> dt.y, week |-> week + 1]

\* dt.isocalendar(): the ISO year and ISO week of a date
isocalendar(dt) ==
    LET today == ToOrdinal(dt)
        week == (today - IsoWeek1Monday(dt.y)) \div 7
    IN  IF week < 0
        THEN [year |-> dt.y - 1,
              week |-> ((today - IsoWeek1Monday(dt.y - 1)) \div 7) + 1]
        ELSE IF week >= 52 /\ today >= IsoWeek1Monday(dt.y + 1)
        THEN [year |-> dt.y + 1, week |-> 1]
        ELSE [year |-> dt.y, week |-> week + 1]

Digits == <<"0", "1", "2", "3", "4", "5", "6", "7", "8", "9">>
\* str(n) for n >= 0
RECURSIVE Str(_)
Str(n) == IF n < 10 THEN <<Digits[n + 1]>> ELSE Str(n \div 10) \o <<Digits[(n % 10) + 1]>>

\* year.astype(str) + "-W" + week.astype(str)
YearWeekStr(year, week) == Str(year) \o <<"-", "W">> \o Str(week)
YearWeek(dt) == YearWeekStr(isocalendar(dt).year, isocalendar(dt).week)

\* code point of a character of a year_week string
Ord(c) ==
    IF c = "-" THEN 45
    ELSE IF c = "W" THEN 87
    ELSE 47 + (CHOOSE i \in 1..10 : Digits[i] = c)

\* a < b for strings
RECURSIVE StrLess(_, _)
StrLess(a, b) ==
    IF b = <<>> THEN FALSE
    ELSE IF a = <<>> THEN TRUE
    ELSE IF Head(a) # Head(b) THEN Ord(Head(a)) < Ord(Head(b))
    ELSE StrLess(Tail(a), Tail(b))

\* the strings of a set in ascending order
RECURSIVE SortedStrings(_)
SortedStrings(S) ==
    IF S = {} THEN <<>>
    ELSE LET least == CHOOSE x \in S : \A y \in S \ {x} : StrLess(x, y)
         IN  <<least>> \o SortedStrings(S \ {least})

\* the sum of column col over the rows of df whose year_week is key
RECURSIVE GroupSum(_, _, _)
GroupSum(df, key, col) ==
    IF df = <<>> THEN 0
    ELSE (IF YearWeek(Head(df).date) = key THEN Head(df)[col] ELSE 0)
         + GroupSum(Tail(df), key, col)

\* daily_df.groupby("year_week", as_index=False).agg(sum).sort_values("year_week")
WeeklyDf(daily_df) ==
    LET keys == SortedStrings({YearWeek(daily_df[i].date) : i \in 1..Len(daily_df)})
    IN  [k \in 1..Len(keys) |->
            [year_week |-> keys[k],
             calories  |-> GroupSum(daily_df, keys[k], "calories"),
             protein   |-> GroupSum(daily_df, keys[k], "protein"),
             fat       |-> GroupSum(daily_df, keys[k], "fat"),
             carbs     |-> GroupSum(daily_df, keys[k], "carbs")]]

\* db.select_data raised: Exception("Select failed: ...")
SelectFailed == [raised |-> "Select failed"]

\* st.session_state.user.id, the same in every session of the user
UserId == "u1"

\* the dict get_user_targets builds from targets[0]
TargetsDict(row) ==
    [calories |-> row.calories, protein |-> row.protein, fat |-> row.fat,
     carbs |-> row.carbs]

\* get_user_targets(db), given what its select on 'targets' gives (the rows
\* are response.data): the dict of the first row, None without rows, and None
\* as well when the select raised (the except branch shows "Failed to get
\* targets" and returns None)
get_user_targets(response) ==
    IF response = SelectFailed THEN None
    ELSE IF response.data # <<>> THEN TargetsDict(response.data[1])
    ELSE None

\* "if not user_targets" holding for every value returned
NotUserTargets_Never(ut) == FALSE

\* "if not user_targets", of the Insights tab
NotUserTargets(ut) == ut = None

\* user_targets[metric_option] can be evaluated: None is not subscriptable
Subscriptable(ut) == ut # None

\* weekly_goals = 7 x daily targets
WeeklyGoals(ut) ==
    [calories |-> 7 * ut.calories, protein |-> 7 * ut.protein,
     fat |-> 7 * ut.fat, carbs |-> 7 * ut.carbs]

\* abs(diff) < pct/100 * goal, the bound left out
WithinRange_Exclusive(diff, pct, goal) == Abs(diff) * 100 < pct * goal

\* abs(diff) <= 0.10 * goal and abs(diff) <= 0.20 * goal, for pct 10 and 20
WithinRange(diff, pct, goal) == Abs(diff) * 100 <= pct * goal

Success == "Success"
NotInRange == "Not in Range"

\* one row of week_insights, for one row of weekly_df
WeekInsight(row, weekly_goals) ==
    LET cal_diff == row.calories - weekly_goals.calories
        protein_diff == row.protein - weekly_goals.protein
        fat_diff == row.fat - weekly_goals.fat
        carbs_diff == row.carbs - weekly_goals.carbs
        cals_ok == WithinRange(cal_diff, 10, weekly_goals.calories)
        prot_ok == WithinRange(protein_diff, 20, weekly_goals.protein)
        fat_ok == WithinRange(fat_diff, 20, weekly_goals.fat)
        carbs_ok == WithinRange(carbs_diff, 20, weekly_goals.carbs)
        success == cals_ok /\ prot_ok /\ fat_ok /\ carbs_ok
    IN  [Week |-> row.year_week,
         TotalCalories |-> row.calories, CalOverUnder |-> cal_diff,
         TotalProtein |-> row.protein, ProteinOverUnder |-> protein_diff,
         TotalFat |-> row.fat, FatOverUnder |-> fat_diff,
         TotalCarbs |-> row.carbs, CarbsOverUnder |-> carbs_diff,
         Status |-> IF success THEN Success ELSE NotInRange]

\* the loop over weekly_df.iterrows()
WeekInsights(weekly, weekly_goals) ==
    [k \in 1..Len(weekly) |-> WeekInsight(weekly[k], weekly_goals)]

MaxDays == 3

\* the dates of the days rows: around the 2024/2025 year boundary, weeks 2 and
\* 10 of 2025, the first day of 2024 and a 1 January that lies in ISO week 53
Dates ==
    {Date(2021, 1, 1), Date(2024, 1, 1), Date(2024, 12, 29), Date(2024, 12, 30),
     Date(2025, 1, 1), Date(2025, 1, 6), Date(2025, 3, 3)}

\* one row of daily_rows: a date and that day's four totals.  The totals are
\* those of one logged day; they lie on the edges of the tolerance bands of the
\* profiles in InsightsProfiles
DailyRows ==
    {[date |-> dt, calories |-> 2079, protein |-> 168, fat |-> 84, carbs |-> 336] :
        dt \in Dates}

\* a profile whose weekly goals a week of one logged day meets, and the values
\* that put one of its targets on and next to the ends of the tolerance band
MetProfile == [calories |-> 300, protein |-> 24, fat |-> 12, carbs |-> 48]
BandEnds ==
    [calories |-> {269, 270, 330, 331}, protein |-> {19, 20, 30, 31},
     fat |-> {9, 10, 15, 16}, carbs |-> {39, 40, 60, 61}]

\* the profiles stored for the user of the Insights tab; the targets form
\* accepts every value >= 0, zero included
InsightsProfiles ==
    {MetProfile, [calories |-> 0, protein |-> 0, fat |-> 0, carbs |-> 0]}
    \cup {[MetProfile EXCEPT ![k] = v] :
            k \in {"calories"}, v \in BandEnds.calories}
    \cup {[MetProfile EXCEPT ![k] = v] :
            k \in {"protein"}, v \in BandEnds.protein}
    \cup {[MetProfile EXCEPT ![k] = v] : k \in {"fat"}, v \in BandEnds.fat}
    \cup {[MetProfile EXCEPT ![k] = v] : k \in {"carbs"}, v \in BandEnds.carbs}

\* a row of table 'targets'
TargetsRow(id, profile) ==
    [id |-> id, user_id |-> UserId, calories |-> profile.calories,
     protein |-> profile.protein, fat |-> profile.fat, carbs |-> profile.carbs]

\* what db.select_data('targets', ...) gives get_user_targets: the user's row,
\* no row, or an exception
TargetsResponses ==
    {SelectFailed, [data |-> <<>>]}
    \cup {[data |-> <<TargetsRow(1, p)>>] : p \in InsightsProfiles}

\* daily_df is sorted by date
SortedByDate(df) ==
    \A i \in 1..(Len(df) - 1) : ToOrdinal(df[i].date) <= ToOrdinal(df[i + 1].date)

NotRun == [outcome |-> "not_run", error |-> FALSE]

InitWeekVars ==
    /\ daily_rows \in UNION {[1..n -> DailyRows] : n \in 0..MaxDays}
    /\ SortedByDate(daily_rows)
    /\ targets_response \in TargetsResponses
    /\ weekly_df = None
    /\ user_targets = None
    /\ week_insights = None
    /\ insights = NotRun

\* one run of the Insights tab: the targets are read; without them the run
\* stops at the prompt to set targets; without days rows it stops at the
\* prompt to log meals; else the daily chart reads user_targets[metric_option],
\* the daily rows are grouped by week and the weekly table is built and
\* displayed
InsightsTab ==
    /\ insights = NotRun
    /\ LET ut == get_user_targets(targets_response)
           failed == targets_response = SelectFailed
       IN  /\ user_targets' = ut
           /\ IF NotUserTargets(ut)
              THEN /\ insights' = [outcome |-> "no_targets", error |-> failed]
                   /\ UNCHANGED <<weekly_df, week_insights>>
              ELSE IF daily_rows = <<>>
              THEN /\ insights' = [outcome |-> "no_days", error |-> failed]
                   /\ UNCHANGED <<weekly_df, week_insights>>
              ELSE IF ~Subscriptable(ut)
              THEN /\ insights' = [outcome |-> "TypeError", error |-> failed]
                   /\ UNCHANGED <<weekly_df, week_insights>>
              ELSE /\ weekly_df' = WeeklyDf(daily_rows)
                   /\ week_insights' = WeekInsights(weekly_df', WeeklyGoals(ut))
                   /\ insights' = [outcome |-> "shown", error |-> failed]
    /\ UNCHANGED <<daily_rows, targets_response>>
    /\ UNCHANGED <<evalVars, aggVars, storeVars, targetVars, mergeVars, authVars>>

(***************************************************************************)
(* The Log Meals tab, src/main.py 485-613: the preview of a log parsed by   *)
(* parse_daily_meals (src/main.py 49-143) and the Save button that calls   *)
(* save_meals (src/main.py 163-197) on the tables 'days' and 'meals'.      *)
(* Every data-access call (src/db.py 55-100) is one step; the sessions     *)
(* belong to one user and their steps interleave.                          *)
(***************************************************************************)
MaxSaves == 2

Sessions == {"s1", "s2"}
EntryDates == {Date(2024, 12, 30), Date(2025, 1, 1)}

\* two meals of a log
Oatmeal ==
    [meal |-> "oatmeal", count |-> 1, calories |-> 300, protein |-> 10,
     fat |-> 5, carbohydrates |-> 50]
Chicken ==
    [meal |-> "chicken", count |-> 1, calories |-> 500, protein |-> 40,
     fat |-> 20, carbohydrates |-> 0]

\* the save_meals calls started so far, over all sessions: the ones that
\* returned, the ones that raised and the ones in flight
SavesStarted(ss) ==
    LET f[S \in SUBSET DOMAIN ss] ==
            IF S = {} THEN 0
            ELSE LET s == CHOOSE x \in S : TRUE
                 IN  ss[s].saves + ss[s].raised
                       + (IF ss[s].pc \in {"idle", "rerun"} THEN 0 ELSE 1)
                       + f[S \ {s}]
    IN  f[DOMAIN ss]

\* The session state and the widget state of one browser session.
\* current_meals: st.session_state['current_meals'].meals, None when the key
\* is absent; image: the file uploader of meal_form holds a file (image_data);
\* entry_date: the date input of meal_form; clicked: the widget that triggered
\* the last run; arguments: what the inference call of the last run returned,
\* None when the run made no such call; error: the last run ended in the
\* except branch of the tab after parse_daily_meals raised; meals, day_id,
\* day_created: the locals of the running save_meals; saves, raised: the
\* save_meals calls that returned and that raised; pending: the rows of
\* days_response the running history view has not listed yet; shown: the day
\* it listed last, with the totals and the number of meals it produced;
\* aborted: its except branch ended the listing
IdleSession ==
    [pc |-> "idle", meals |-> <<>>, entry_date |-> None, day_id |-> 0,
     day_created |-> FALSE, saves |-> 0, raised |-> 0,
     current_meals |-> None, arguments |-> None, error |-> FALSE,
     image |-> FALSE, clicked |-> "none",
     pending |-> <<>>, shown |-> None, aborted |-> FALSE]

\* a meal of function_call.arguments: every number is present or null
RawMeal(m) ==
    [meal |-> m.meal, count |-> Num(m.count), calories |-> Num(m.calories),
     protein |-> Num(m.protein), fat |-> Num(m.fat),
     carbohydrates |-> Num(m.carbohydrates)]

\* the meal lists the inference call returns: two complete ones, and two with a
\* null nutrition field
InferenceResponses ==
    {<<RawMeal(Oatmeal)>>,
     <<RawMeal(Chicken), RawMeal(Oatmeal)>>,
     <<[RawMeal(Oatmeal) EXCEPT !.protein = None]>>,
     <<RawMeal(Chicken), [RawMeal(Oatmeal) EXCEPT !.calories = None]>>}

NumberFields == {"count", "calories", "protein", "fat", "carbohydrates"}

\* some number of some meal is null
HasNull(arguments) ==
    \E i \in 1..Len(arguments) : \E k \in NumberFields : arguments[i][k] = None

\* the Meal objects of a meal list, a null number read as 0
MealObjects(arguments) ==
    [i \in 1..Len(arguments) |->
        [k \in DOMAIN arguments[i] |->
            IF k \notin NumberFields THEN arguments[i][k]
            ELSE IF arguments[i][k] = None THEN 0
            ELSE Val(arguments[i][k])]]

\* parse_daily_meals filling a null number with 0
parse_daily_meals_ZeroFill(arguments) ==
    [raised |-> FALSE, meals |-> MealObjects(arguments)]

\* parse_daily_meals, from the inference result on: a null number makes the
\* validation raise (Meal has no optional field; the explicit check after it
\* raises ValueError), the except branch shows the error and re-raises; else
\* the validated meals are returned
parse_daily_meals(arguments) ==
    IF HasNull(arguments)
    THEN [raised |-> TRUE, meals |-> <<>>]
    ELSE [raised |-> FALSE, meals |-> MealObjects(arguments)]

\* one browser session on the Log Meals tab of a user with no stored day
InitStoreVars ==
    /\ days = {}
    /\ meals = {}
    /\ next_id = [days |-> 1, meals |-> 1]
    /\ sess = [s \in {"s1"} |-> IdleSession]

\* db.select_data(table, '*', match_dict)
select_data(table, match_dict) ==
    {row \in table : \A col \in DOMAIN match_dict : row[col] = match_dict[col]}

\* the row dicts save_meals builds from the Meal objects, with the ids the
\* table assigns to them
MealsData(ms, day_id, first_id) ==
    {[id |-> first_id + i - 1,
      day_id |-> day_id,
      user_id |-> UserId,
      meal |-> ms[i].meal,
      count |-> Num(ms[i].count),
      calories |-> Num(ms[i].calories),
      protein |-> Num(ms[i].protein),
      fat |-> Num(ms[i].fat),
      carbohydrates |-> Num(ms[i].carbohydrates)] : i \in 1..Len(ms)}

\* the preview block of the last run reached its buttons: the run entered
\* "if st.session_state['log_text'] or image_data" (a submitted text, or a
\* file in the uploader), parse_daily_meals did not raise, and current_meals
\* was there to show
Displayed(ss) ==
    /\ ss.pc = "idle"
    /\ ss.image \/ ss.clicked = "preview"
    /\ ~ss.error
    /\ ss.current_meals # None

\* "Preview Meals" submits meal_form with a log text, a file or both, and an
\* entry date.  parse_daily_meals is called only when the session holds no
\* current_meals; its result becomes current_meals, an exception ends the run
\* in the except branch of the tab.  With current_meals in the session the
\* block shows that list again.
Preview(s) ==
    /\ sess[s].pc = "idle"
    /\ \E img \in BOOLEAN, dt \in EntryDates, arguments \in InferenceResponses :
         LET result == parse_daily_meals(arguments)
         IN  IF sess[s].current_meals = None
             THEN sess' = [sess EXCEPT
                             ![s].clicked = "preview",
                             ![s].image = img,
                             ![s].entry_date = dt,
                             ![s].arguments = arguments,
                             ![s].error = result.raised,
                             ![s].current_meals =
                                 IF result.raised THEN None ELSE result.meals]
             ELSE sess' = [sess EXCEPT
                             ![s].clicked = "preview",
                             ![s].image = img,
                             ![s].entry_date = dt,
                             ![s].arguments = None,
                             ![s].error = FALSE]
    /\ UNCHANGED <<days, meals, next_id>>
    /\ UNCHANGED <<evalVars, aggVars, weekVars, targetVars, mergeVars, authVars>>

\* A run that no button of the tab triggered: st.rerun() after Modify or Save
\* (pc = "rerun"), or another widget of the page.  log_text is reset to None,
\* so the block is entered only with a file in the uploader; there
\* parse_daily_meals is called when the session holds no current_meals.
Rerun(s) ==
    /\ sess[s].pc \in {"idle", "rerun"}
    /\ \E arguments \in InferenceResponses :
         LET result == parse_daily_meals(arguments)
             clicked == IF sess[s].pc = "rerun" THEN sess[s].clicked ELSE "rerun"
         IN  IF sess[s].image /\ sess[s].current_meals = None
             THEN sess' = [sess EXCEPT
                             ![s].pc = "idle",
                             ![s].clicked = clicked,
                             ![s].arguments = arguments,
                             ![s].error = result.raised,
                             ![s].current_meals =
                                 IF result.raised THEN None ELSE result.meals]
             ELSE sess' = [sess EXCEPT
                             ![s].pc = "idle",
                             ![s].clicked = clicked,
                             ![s].arguments = None,
                             ![s].error = FALSE]
    /\ UNCHANGED <<days, meals, next_id>>
    /\ UNCHANGED <<evalVars, aggVars, weekVars, targetVars, mergeVars, authVars>>

\* Modify is clicked on a displayed preview, with an edit query.  The click
\* runs the script again: without a file in the uploader the block is not
\* entered and the button is not evaluated.  Else edit_meals calls
\* parse_daily_meals; its result replaces current_meals and st.rerun() follows,
\* an exception leaves current_meals as it is.
Modify(s) ==
    /\ Displayed(sess[s])
    /\ \E arguments \in InferenceResponses :
         LET result == parse_daily_meals(arguments)
         IN  IF ~sess[s].image
             THEN sess' = [sess EXCEPT
                             ![s].clicked = "modify",
                             ![s].arguments = None,
                             ![s].error = FALSE]
             ELSE sess' = [sess EXCEPT
                             ![s].pc = IF result.raised THEN "idle" ELSE "rerun",
                             ![s].clicked = "modify",
                             ![s].arguments = arguments,
                             ![s].error = result.raised,
                             ![s].current_meals =
                                 IF result.raised THEN sess[s].current_meals
                                 ELSE result.meals]
    /\ UNCHANGED <<days, meals, next_id>>
    /\ UNCHANGED <<evalVars, aggVars, weekVars, targetVars, mergeVars, authVars>>

\* Save is clicked on a displayed preview.  The click runs the script again:
\* without a file in the uploader the block is not entered and the button is
\* not evaluated.  Else save_meals(current_meals.meals, entry_date) starts and
\* gets its database client.
ClickSave(s) ==
    /\ Displayed(sess[s])
    /\ sess[s].image => SavesStarted(sess) < MaxSaves
    /\ IF ~sess[s].image
       THEN sess' = [sess EXCEPT
                       ![s].clicked = "save",
                       ![s].arguments = None,
                       ![s].error = FALSE]
       ELSE sess' = [sess EXCEPT
                       ![s].pc = "select_day",
                       ![s].clicked = "save",
                       ![s].arguments = None,
                       ![s].error = FALSE,
                       ![s].meals = sess[s].current_meals]
    /\ UNCHANGED <<days, meals, next_id>>
    /\ UNCHANGED <<evalVars, aggVars, weekVars, targetVars, mergeVars, authVars>>

\* save_meals: "First, check if day exists"; an existing day gives the day_id.
\* The select has no order, so days_response[0] is any of the matching rows.
SelectDay(s) ==
    /\ sess[s].pc = "select_day"
    /\ LET days_response ==
               select_data(days, [date |-> sess[s].entry_date, user_id |-> UserId])
       IN  IF days_response = {}
           THEN sess' = [sess EXCEPT ![s].pc = "insert_day"]
           ELSE \E row \in days_response :
                    sess' = [sess EXCEPT ![s].pc = "insert_meals", ![s].day_id = row.id]
    /\ UNCHANGED <<days, meals, next_id>>
    /\ UNCHANGED <<evalVars, aggVars, weekVars, targetVars, mergeVars, authVars>>

\* save_meals: "Create new day"
InsertDay(s) ==
    /\ sess[s].pc = "insert_day"
    /\ days' = days \cup {[id |-> next_id.days, date |-> sess[s].entry_date,
                           user_id |-> UserId]}
    /\ next_id' = [next_id EXCEPT !.days = @ + 1]
    /\ sess' = [sess EXCEPT ![s].pc = "insert_meals", ![s].day_id = next_id.days,
                            ![s].day_created = TRUE]
    /\ UNCHANGED meals
    /\ UNCHANGED <<evalVars, aggVars, weekVars, targetVars, mergeVars, authVars>>

\* save_meals: "Insert meals"; then the Save handler deletes current_meals
\* and calls st.rerun()
InsertMeals(s) ==
    /\ sess[s].pc = "insert_meals"
    /\ meals' = meals \cup MealsData(sess[s].meals, sess[s].day_id, next_id.meals)
    /\ next_id' = [next_id EXCEPT !.meals = @ + Len(sess[s].meals)]
    /\ sess' = [sess EXCEPT ![s].pc = "rerun",
                            ![s].meals = <<>>,
                            ![s].day_id = 0,
                            ![s].day_created = FALSE,
                            ![s].saves = @ + 1,
                            ![s].current_meals = None]
    /\ UNCHANGED days
    /\ UNCHANGED <<evalVars, aggVars, weekVars, targetVars, mergeVars, authVars>>

\* save_meals: the data-access call it is about to make raises (select_data,
\* insert_data and the sign-in of initialize_supabase_client all can).  The
\* except branch shows the error and re-raises, the except branch of the tab
\* shows it again: nothing is undone, current_meals stays
SaveRaises(s) ==
    /\ sess[s].pc \in {"select_day", "insert_day", "insert_meals"}
    /\ sess' = [sess EXCEPT ![s].pc = "idle",
                            ![s].meals = <<>>,
                            ![s].day_id = 0,
                            ![s].day_created = FALSE,
                            ![s].raised = @ + 1]
    /\ UNCHANGED <<days, meals, next_id>>
    /\ UNCHANGED <<evalVars, aggVars, weekVars, targetVars, mergeVars, authVars>>

(***************************************************************************)
(* The View History tab, src/main.py 748-901: the listing of the stored    *)
(* days with their meals and daily totals, and the buttons that delete a   *)
(* meal or a day.  Every data-access call (src/db.py 55-134) is one step.  *)
(* A run of the script executes the tabs one after the other; the part of  *)
(* the Log Meals tab and the part of the history view change disjoint      *)
(* fields of the session and are separate steps, so the run that           *)
(* st.rerun() starts after a delete is a Rerun step and a ViewHistory step *)
(* of the session.                                                         *)
(***************************************************************************)
\* the rows of a table as the list a select returns
RECURSIVE RowsById(_)
RowsById(rows) ==
    IF rows = {} THEN <<>>
    ELSE LET first == CHOOSE r \in rows : \A o \in rows : r.id <= o.id
         IN  <<first>> \o RowsById(rows \ {first})

\* meals_response of a day reading the meals of every day
HistoryMeals_AnyDay(day) ==
    select_data(meals, [user_id |-> UserId])

\* meals_response of a day: select_data('meals', '*', {day_id, user_id})
HistoryMeals(day) ==
    select_data(meals, [day_id |-> day.id, user_id |-> UserId])

\* sorted(meals_response, key=lambda x: x['calories'], reverse=True) raises
\* TypeError when it has to compare a None key: with two or more meals of
\* which one has calories NULL
SortRaises(response) ==
    /\ Cardinality(response) >= 2
    /\ \E m \in response : m.calories = None

\* the lists select_data('days', ..., order_by date descending) can return;
\* rows of equal date come in any order
DaysByDateDesc(rows) ==
    LET n == Cardinality(rows)
    IN  {q \in [1..n -> rows] :
            /\ \A i, j \in 1..n : i # j => q[i] # q[j]
            /\ \A i, j \in 1..n :
                 i < j => ToOrdinal(q[i].date) >= ToOrdinal(q[j].date)}

\* a run of the history view gets as far as the buttons of a day: no day
\* listed before it, and not the day itself, makes the sort raise
ListingReaches(day) ==
    \A e \in days :
        (e = day \/ ToOrdinal(e.date) > ToOrdinal(day.date)) =>
            ~SortRaises(HistoryMeals(e))

\* the history view of a run starts: days_response is read
ViewHistory(s) ==
    /\ sess[s].pc = "idle"
    /\ \E days_response \in DaysByDateDesc(select_data(days, [user_id |-> UserId])) :
         sess' = [sess EXCEPT
                    ![s].pc = IF days_response = <<>> THEN "idle" ELSE "list_day",
                    ![s].pending = days_response,
                    ![s].shown = None,
                    ![s].aborted = FALSE]
    /\ UNCHANGED <<days, meals, next_id>>
    /\ UNCHANGED <<evalVars, aggVars, weekVars, targetVars, mergeVars, authVars>>

\* one round of "for day in days_response": the meals of the day are read and
\* the four totals computed; the sort inside the expander either raises, and
\* the except branch around the loop ends the listing, or the meals are shown
ListDay(s) ==
    /\ sess[s].pc = "list_day"
    /\ LET day == Head(sess[s].pending)
           day_meals == HistoryMeals(day)
           day_totals == DailyTotals(RowsById(day_meals))
       IN  IF SortRaises(day_meals)
           THEN sess' = [sess EXCEPT
                           ![s].pc = "idle",
                           ![s].pending = <<>>,
                           ![s].shown = [day_id |-> day.id, totals |-> day_totals,
                                         listed |-> 0],
                           ![s].aborted = TRUE]
           ELSE sess' = [sess EXCEPT
                           ![s].pc = IF Tail(sess[s].pending) = <<>>
                                     THEN "idle" ELSE "list_day",
                           ![s].pending = Tail(sess[s].pending),
                           ![s].shown = [day_id |-> day.id, totals |-> day_totals,
                                         listed |-> Cardinality(day_meals)]]
    /\ UNCHANGED <<days, meals, next_id>>
    /\ UNCHANGED <<evalVars, aggVars, weekVars, targetVars, mergeVars, authVars>>

\* the delete button of a listed meal: delete_data('meals', {'id'}), then
\* st.rerun()
DeleteMeal(s) ==
    /\ sess[s].pc = "idle"
    /\ \E m \in meals :
         /\ \E d \in days : d.id = m.day_id /\ ListingReaches(d)
         /\ meals' = meals \ select_data(meals, [id |-> m.id])
    /\ UNCHANGED <<days, next_id, sess>>
    /\ UNCHANGED <<evalVars, aggVars, weekVars, targetVars, mergeVars, authVars>>

\* the delete button of a listed day, first call:
\* delete_data('meals', {'day_id'})
DeleteDayMeals(s) ==
    /\ sess[s].pc = "idle"
    /\ \E d \in days :
         /\ ListingReaches(d)
         /\ meals' = meals \ select_data(meals, [day_id |-> d.id])
         /\ sess' = [sess EXCEPT ![s].pc = "delete_day", ![s].day_id = d.id]
    /\ UNCHANGED <<days, next_id>>
    /\ UNCHANGED <<evalVars, aggVars, weekVars, targetVars, mergeVars, authVars>>

\* the delete button of a listed day, second call:
\* delete_data('days', {'id'}), then st.rerun()
DeleteDayRow(s) ==
    /\ sess[s].pc = "delete_day"
    /\ days' = days \ select_data(days, [id |-> sess[s].day_id])
    /\ sess' = [sess EXCEPT ![s].pc = "idle", ![s].day_id = 0]
    /\ UNCHANGED <<meals, next_id>>
    /\ UNCHANGED <<evalVars, aggVars, weekVars, targetVars, mergeVars, authVars>>

\* the stored days and meals two sessions of a user find: none, or a day of
\* 2025-01-01 with any of two meals, one of them a legacy row with calories
\* NULL, and with or without an older day of one meal
LegacyDay == [id |-> 1, date |-> Date(2025, 1, 1), user_id |-> UserId]
OlderDay == [id |-> 2, date |-> Date(2024, 12, 30), user_id |-> UserId]
LegacyMeals ==
    {[row EXCEPT !.calories = None] : row \in MealsData(<<Chicken>>, 1, 1)}
      \cup MealsData(<<Oatmeal>>, 1, 2)
OlderMeals == MealsData(<<Oatmeal>>, 2, 3)
StoredBefore ==
    {[days |-> {}, meals |-> {}]}
      \cup {[days |-> {LegacyDay}, meals |-> ms] : ms \in SUBSET LegacyMeals}
      \cup {[days |-> {LegacyDay, OlderDay}, meals |-> ms \cup OlderMeals] :
              ms \in SUBSET LegacyMeals}

\* a session with a displayed preview of a log submitted with an image
PreviewedSessions ==
    {[IdleSession EXCEPT !.clicked = "preview",
                         !.image = TRUE,
                         !.entry_date = dt,
                         !.arguments = <<RawMeal(Oatmeal)>>,
                         !.current_meals = <<Oatmeal>>] : dt \in EntryDates}

\* one session that has a preview or has none, over any of the stores
InitHistoryVars ==
    /\ \E st \in StoredBefore : days = st.days /\ meals = st.meals
    /\ next_id = [days |-> 3, meals |-> 4]
    /\ sess \in [{"s1"} -> PreviewedSessions \cup {IdleSession}]

\* two sessions with a preview each, over no stored day or the older one
InitSaveVars ==
    /\ \E st \in {[days |-> {}, meals |-> {}],
                  [days |-> {OlderDay}, meals |-> OlderMeals]} :
         days = st.days /\ meals = st.meals
    /\ next_id = [days |-> 3, meals |-> 4]
    /\ sess \in [Sessions -> PreviewedSessions]

(***************************************************************************)
(* The table 'targets' and save_user_targets, src/main.py 637-662, as      *)
(* called from the two targets forms, src/main.py 684-719.  The select and *)
(* the write are separate data-access calls (src/db.py 55-117), one step   *)
(* each; the sessions belong to one user and their steps interleave.  The  *)
(* rows carry the serial id of the table, which keeps two rows of equal    *)
(* content apart.                                                          *)
(***************************************************************************)
MaxTargetSaves == 3

\* the defaults of the targets form
FormDefaults == [calories |-> 2000, protein |-> 150, fat |-> 70, carbs |-> 250]
\* the targets_dict values the forms submit
SubmittedProfiles == {FormDefaults, MetProfile}

\* the save_user_targets calls started so far, over all sessions
TargetSavesStarted(ts) ==
    LET f[S \in SUBSET Sessions] ==
            IF S = {} THEN 0
            ELSE LET s == CHOOSE x \in S : TRUE
                 IN  Len(ts[s].returned) + (IF ts[s].pc = "idle" THEN 0 ELSE 1)
                     + f[S \ {s}]
    IN  f[Sessions]

\* returned: the targets_dict of every call of the session that returned True
IdleTargetsSession ==
    [pc |-> "idle", targets_dict |-> None, existing_targets |-> {},
     returned |-> <<>>]

InitTargetVars ==
    /\ targets_table = {}
    /\ targets_next_id = 1
    /\ tsess = [s \in Sessions |-> IdleTargetsSession]

\* "if existing_targets" taken as false for every select result
HasExisting_Never(existing_targets) == FALSE

\* "if existing_targets"
HasExisting(existing_targets) == existing_targets # {}

\* data = {'user_id': ..., **targets_dict}
TargetsData(targets_dict) ==
    [user_id |-> UserId, calories |-> targets_dict.calories,
     protein |-> targets_dict.protein, fat |-> targets_dict.fat,
     carbs |-> targets_dict.carbs]

\* db.update_data(table, match_dict, new_data): every matching row gets the
\* columns of new_data
update_data(table, match_dict, new_data) ==
    {IF \A col \in DOMAIN match_dict : row[col] = match_dict[col]
     THEN [col \in DOMAIN row |->
              IF col \in DOMAIN new_data THEN new_data[col] ELSE row[col]]
     ELSE row : row \in table}

\* db.insert_data(table, data): the table assigns the id
insert_data(table, data, id) ==
    table \cup {[col \in DOMAIN data \cup {"id"} |->
                    IF col = "id" THEN id ELSE data[col]]}

\* a targets form is submitted: save_user_targets(db, targets_dict) starts
SubmitTargets(s) ==
    /\ tsess[s].pc = "idle"
    /\ TargetSavesStarted(tsess) < MaxTargetSaves
    /\ \E p \in SubmittedProfiles :
         tsess' = [tsess EXCEPT ![s].pc = "select_targets", ![s].targets_dict = p]
    /\ UNCHANGED <<targets_table, targets_next_id>>
    /\ UNCHANGED <<evalVars, aggVars, weekVars, storeVars, mergeVars, authVars>>

\* save_user_targets: existing_targets = db.select_data('targets', ...)
SelectTargets(s) ==
    /\ tsess[s].pc = "select_targets"
    /\ tsess' = [tsess EXCEPT
                   ![s].pc = "write_targets",
                   ![s].existing_targets =
                       select_data(targets_table, [user_id |-> UserId])]
    /\ UNCHANGED <<targets_table, targets_next_id>>
    /\ UNCHANGED <<evalVars, aggVars, weekVars, storeVars, mergeVars, authVars>>

\* save_user_targets: update the existing rows or insert a new one, and
\* return True
WriteTargets(s) ==
    /\ tsess[s].pc = "write_targets"
    /\ LET data == TargetsData(tsess[s].targets_dict)
       IN  IF HasExisting(tsess[s].existing_targets)
           THEN /\ targets_table' =
                     update_data(targets_table, [user_id |-> UserId], data)
                /\ UNCHANGED targets_next_id
           ELSE /\ targets_table' = insert_data(targets_table, data, targets_next_id)
                /\ targets_next_id' = targets_next_id + 1
    /\ tsess' = [tsess EXCEPT
                   ![s] = [IdleTargetsSession EXCEPT
                             !.returned = Append(tsess[s].returned,
                                                 tsess[s].targets_dict)]]
    /\ UNCHANGED <<evalVars, aggVars, weekVars, storeVars, mergeVars, authVars>>

(***************************************************************************)
(* The entry merger of the single-entry-per-day variant.  Its code is not  *)
(* among the sources; it is modelled from its contract: without an         *)
(* existing entry the incoming one is stored verbatim; else log_string is  *)
(* appended after "Additional entry: ", every accumulating field becomes   *)
(* round(existing + incoming, 1) and every point-in-time field the         *)
(* incoming value if that is not null, else the existing one.              *)
(* Numbers are counted in hundredths, so that one decimal place is a       *)
(* multiple of 10.  Every quantity below is an even number of hundredths:  *)
(* no sum lies halfway between two tenths, where the result of Python's    *)
(* round depends on the binary representation of the float.                *)
(***************************************************************************)
MaxQuantityUnits == 5

AccumulatingFields == {"calories", "protein", "carbohydrates", "fats", "fiber", "sugar"}
PointInTimeFields == {"weight", "bmi", "sleep"}

\* round(x, 1) of x >= 0 hundredths: the nearest tenth, a tie to the even tenth
Round1(x) ==
    LET low == (x \div 10) * 10
        rest == x % 10
    IN  IF rest < 5 THEN low
        ELSE IF rest > 5 THEN low + 10
        ELSE IF (low \div 10) % 2 = 0 THEN low
        ELSE low + 10

\* an accumulating field taking the incoming value
Accumulate_Overwrite(existing_value, incoming_value) == Round1(incoming_value)

\* an accumulating field after a merge
Accumulate(existing_value, incoming_value) == Round1(existing_value + incoming_value)

\* a point-in-time field taking the incoming value, null included
PointInTime_Cleared(existing_value, incoming_value) == incoming_value

\* a point-in-time field after a merge
PointInTime(existing_value, incoming_value) ==
    IF incoming_value # None THEN incoming_value ELSE existing_value

\* merge(existing, incoming, date)
merge(existing, new_entry) ==
    IF existing = None THEN new_entry
    ELSE [k \in DOMAIN new_entry |->
            IF k \in AccumulatingFields THEN Accumulate(existing[k], new_entry[k])
            ELSE IF k \in PointInTimeFields THEN PointInTime(existing[k], new_entry[k])
            ELSE IF k = "log_string"
            THEN existing[k] \o <<"separator", "Additional entry: ">> \o new_entry[k]
            ELSE existing[k]]

\* the entries of one date: a log of one word, quantities of q units of 0.02
\* (calories in steps of 0.1), and the point-in-time fields of known that are
\* not null
NutritionEntry(log, q, known) ==
    [date |-> Date(2025, 1, 1), log_string |-> <<log>>,
     calories |-> 10 * q, protein |-> 2 * q, carbohydrates |-> 6 * q,
     fats |-> 2 * q, fiber |-> 14 * q, sugar |-> 18 * q,
     weight |-> IF "weight" \in known THEN Num(18000 + q) ELSE None,
     bmi |-> IF "bmi" \in known THEN Num(2400 + q) ELSE None,
     sleep |-> IF "sleep" \in known THEN Num(700 + q) ELSE None]

KnownFields == {{}, {"weight"}, {"bmi", "sleep"}, PointInTimeFields}

Entries(log) ==
    {NutritionEntry(log, q, known) : q \in 0..MaxQuantityUnits, known \in KnownFields}

\* incoming: the entry stored before the two submissions, the submissions A
\* and B, and the number of merges done in each order
InitMergeVars ==
    /\ \E e \in Entries("e") \cup {None}, a \in Entries("a"), b \in Entries("b") :
         /\ incoming = [existing |-> e, a |-> a, b |-> b, merged |-> 0]
         /\ stored_ab = e
         /\ stored_ba = e

\* the first submission is merged: A in one order, B in the other
MergeFirst ==
    /\ incoming.merged = 0
    /\ stored_ab' = merge(stored_ab, incoming.a)
    /\ stored_ba' = merge(stored_ba, incoming.b)
    /\ incoming' = [incoming EXCEPT !.merged = 1]
    /\ UNCHANGED <<evalVars, aggVars, weekVars, storeVars, targetVars, authVars>>

\* the second submission is merged: B in one order, A in the other
MergeSecond ==
    /\ incoming.merged = 1
    /\ stored_ab' = merge(stored_ab, incoming.b)
    /\ stored_ba' = merge(stored_ba, incoming.a)
    /\ incoming' = [incoming EXCEPT !.merged = 2]
    /\ UNCHANGED <<evalVars, aggVars, weekVars, storeVars, targetVars, authVars>>

(***************************************************************************)
(* Variables a specification does not use stay at these values.            *)
(***************************************************************************)
IdleAggVars ==
    /\ meals_response = <<>>
    /\ totals = None

IdleWeekVars ==
    /\ daily_rows = <<>>
    /\ weekly_df = None
    /\ targets_response = None
    /\ user_targets = None
    /\ week_insights = None
    /\ insights = None

IdleTargetVars ==
    /\ targets_table = {}
    /\ targets_next_id = 0
    /\ tsess = <<>>

IdleMergeVars ==
    /\ stored_ab = None
    /\ stored_ba = None
    /\ incoming = None

IdleStoreVars ==
    /\ days = {}
    /\ meals = {}
    /\ next_id = None
    /\ sess = <<>>

(***************************************************************************)
(* Login and Logout, src/main.py 269-273, 327-344 and 423-440, and         *)
(* initialize_supabase_client, src/main.py 150-161, over the accounts of   *)
(* the auth service (src/db.py 27-47, 163-174).                            *)
(***************************************************************************)
Emails == {"a@example.com", "b@example.com"}
Passwords == {"secret1", "secret2"}

\* the session state has no key user_password
NoPassword == "absent"

\* initialize_session_state on a fresh session: authenticated = False,
\* user = None, no user_password; message: the error the last run showed
LoggedOut ==
    [authenticated |-> FALSE, user |-> None, user_password |-> NoPassword,
     message |-> "none"]

InitAuthVars ==
    /\ session_state = [s \in Sessions |-> LoggedOut]
    /\ accounts \in [Emails -> Passwords]

IdleAuthVars ==
    /\ session_state = <<>>
    /\ accounts = <<>>

\* db.sign_in(email, password): the service is reachable (up) and the
\* password is the one of the account; else it raises
sign_in(email, password, up) ==
    up /\ accounts[email] = password

\* initialize_supabase_client: a signed-in client when the session state is
\* authenticated, holds a user and the sign-in with the stored password
\* succeeds; None (FALSE) otherwise
initialize_supabase_client(ss, up) ==
    /\ ss.authenticated
    /\ ss.user # None
    /\ sign_in(ss.user.email, ss.user_password, up)

\* the login form is submitted
Login(s) ==
    /\ ~session_state[s].authenticated
    /\ \E email \in Emails, password \in Passwords, up \in BOOLEAN :
         IF sign_in(email, password, up)
         THEN session_state' = [session_state EXCEPT
                                  ![s].authenticated = TRUE,
                                  ![s].user = [email |-> email],
                                  ![s].user_password = password,
                                  ![s].message = "none"]
         ELSE session_state' = [session_state EXCEPT
                                  ![s].message = "Login failed"]
    /\ UNCHANGED accounts
    /\ UNCHANGED <<evalVars, aggVars, weekVars, storeVars, targetVars, mergeVars>>

\* the Logout button: sign_out() on the client when there is one; when it
\* raises the except branch shows "Logout failed" and the session stays as
\* it is; else authenticated and user are reset
Logout(s) ==
    /\ session_state[s].authenticated
    /\ \E up \in BOOLEAN, signed_out \in BOOLEAN :
         IF initialize_supabase_client(session_state[s], up) /\ ~signed_out
         THEN session_state' = [session_state EXCEPT
                                  ![s].message = "Logout failed"]
         ELSE session_state' = [session_state EXCEPT
                                  ![s].authenticated = FALSE,
                                  ![s].user = None,
                                  ![s].message = "none"]
    /\ UNCHANGED accounts
    /\ UNCHANGED <<evalVars, aggVars, weekVars, storeVars, targetVars, mergeVars>>

\* the recovery form of the login page: update_password sets a new password
\* for the account of the recovery link
RecoverPassword(s) ==
    /\ ~session_state[s].authenticated
    /\ \E email \in Emails, new_password \in Passwords :
         accounts' = [accounts EXCEPT ![email] = new_password]
    /\ session_state' = [session_state EXCEPT ![s].message = "none"]
    /\ UNCHANGED <<evalVars, aggVars, weekVars, storeVars, targetVars, mergeVars>>

InitEval ==
    InitEvalVars /\ IdleAggVars /\ IdleWeekVars /\ IdleStoreVars /\ IdleTargetVars
    /\ IdleMergeVars /\ IdleAuthVars
NextEval == Analyze
SpecEval == InitEval /\ [][NextEval]_vars

(***************************************************************************)
(* Claims about analyze_meal_macros (SpecEval).                            *)
(***************************************************************************)
Called == evaluations # NotCalled
Returned == Called /\ evaluations # ZeroDivisionError
TargetsPresent == daily_targets # None
MacroKeys == {"calories", "protein", "fat", "carbs"}

\* calPercent = meal.calories / targets.calories * 100 compared with a
\* percentage p, for targets.calories > 0
CalPercentAbove(p) == meal.calories * 100 > p * daily_targets.calories
CalPercentBelow(p) == meal.calories * 100 < p * daily_targets.calories

\* C1: with targets.calories > 0 the calorie colour is red above 35 percent of
\* the daily calorie target, grey from 20 to 35 percent inclusive, green below
\* 20 percent.
C1_CaloriesClassification ==
    (Called /\ TargetsPresent /\ daily_targets.calories > 0) =>
        /\ Returned
        /\ evaluations.calories.color =
             IF CalPercentAbove(35) THEN Red
             ELSE IF ~CalPercentBelow(20) THEN Grey
             ELSE Green

\* C2: with targets.calories > 0 the calorie direction is Up above 35 percent,
\* None from 20 to 35 percent inclusive, Down below 20 percent.
C2_CaloriesDirection ==
    (Called /\ TargetsPresent /\ daily_targets.calories > 0) =>
        /\ Returned
        /\ evaluations.calories.direction =
             IF CalPercentAbove(35) THEN Up
             ELSE IF ~CalPercentBelow(20) THEN NoDirection
             ELSE Down

\* the call has returned for a meal at exactly 20 percent of the calorie target
C2_Witness ==
    /\ Called /\ TargetsPresent /\ daily_targets.calories > 0
    /\ meal.calories * 100 = 20 * daily_targets.calories
    /\ Returned
    /\ evaluations.calories.direction = NoDirection

\* mealRatio and targetRatio of a macro of kcalPerGram, both multiplied by
\* meal.calories * targets.calories / 100 to stay in the integers (by
\* targets.calories / 100 for a meal of 0 kcal, whose mealRatio is 0)
MealRatioScaled(grams, kcalPerGram) ==
    IF meal.calories = 0 THEN 0
    ELSE grams * kcalPerGram * daily_targets.calories
TargetRatioScaled(targetGrams, kcalPerGram) ==
    IF meal.calories = 0 THEN targetGrams * kcalPerGram
    ELSE targetGrams * kcalPerGram * meal.calories

\* C3: for every meal and present profile, protein is red with direction Down
\* if mealRatio < 0.67 * targetRatio, grey with no direction if
\* 0.67 * targetRatio <= mealRatio < targetRatio, else green with no direction.
C3_ProteinClassification ==
    (Called /\ TargetsPresent) =>
        /\ Returned
        /\ LET mr == MealRatioScaled(meal.protein, 4)
               tr == TargetRatioScaled(daily_targets.protein, 4)
           IN  /\ evaluations.protein.color =
                    IF 100 * mr < 67 * tr THEN Red
                    ELSE IF mr < tr THEN Grey
                    ELSE Green
               /\ evaluations.protein.direction =
                    IF 100 * mr < 67 * tr THEN Down ELSE NoDirection

\* the excess rule of C4 for one macro
ExcessRule(ev, grams, targetGrams, kcalPerGram) ==
    LET mr == MealRatioScaled(grams, kcalPerGram)
        tr == TargetRatioScaled(targetGrams, kcalPerGram)
    IN  /\ ev.color =
             IF 10 * mr > 14 * tr THEN Red
             ELSE IF mr > tr THEN Grey
             ELSE Green
        /\ ev.direction = IF 10 * mr > 14 * tr THEN Up ELSE NoDirection

\* C4: for every meal and present profile, fat (9 kcal/g) and carbohydrates
\* (4 kcal/g) are red with direction Up if mealRatio > 1.4 * targetRatio, grey
\* with no direction if targetRatio < mealRatio <= 1.4 * targetRatio, else
\* green with no direction.
C4_FatCarbsClassification ==
    (Called /\ TargetsPresent) =>
        /\ Returned
        /\ ExcessRule(evaluations.fat, meal.fat, daily_targets.fat, 9)
        /\ ExcessRule(evaluations.carbs, meal.carbohydrates, daily_targets.carbs, 4)

\* C5: without a target profile every macro gets the neutral grey, no
\* direction and ratio 0, and nothing is raised.
C5_AbsentTargetsNeutral ==
    (Called /\ ~TargetsPresent) =>
        /\ Returned
        /\ \A k \in MacroKeys :
             /\ evaluations[k].color = Grey
             /\ evaluations[k].direction = NoDirection
             /\ IsZero(evaluations[k].percent)

\* the call has returned for a meal with calories and no target profile
C5_Witness ==
    /\ Called /\ ~TargetsPresent
    /\ meal.calories > 0 /\ meal.protein > 0
    /\ evaluations.calories.color = Grey

\* C6: for a meal of 0 kcal and targets.calories > 0 the protein, fat and
\* carbohydrate ratios are 0 and nothing is raised.
C6_ZeroCalorieMealRatios ==
    (Called /\ TargetsPresent /\ daily_targets.calories > 0 /\ meal.calories = 0) =>
        /\ Returned
        /\ IsZero(evaluations.protein.percent)
        /\ IsZero(evaluations.fat.percent)
        /\ IsZero(evaluations.carbs.percent)

\* the call has returned for a meal of 0 kcal that lists macro grams
C6_Witness ==
    /\ Called /\ TargetsPresent /\ daily_targets.calories > 0
    /\ meal.calories = 0 /\ meal.protein > 0 /\ meal.fat > 0 /\ meal.carbohydrates > 0
    /\ Returned
    /\ IsZero(evaluations.protein.percent)

\* C7: for every meal and every present profile with fields >= 0, calories = 0
\* included, the call returns a result and no division by zero is raised.
C7_EvaluatorTotal ==
    (Called /\ TargetsPresent) => evaluations # ZeroDivisionError

(***************************************************************************)
(* Claims about the daily totals (SpecAgg).                                *)
(***************************************************************************)
InitAgg ==
    IdleEvalVars /\ InitAggVars /\ IdleWeekVars /\ IdleStoreVars /\ IdleTargetVars
    /\ IdleMergeVars /\ IdleAuthVars
NextAgg == ComputeTotals
SpecAgg == InitAgg /\ [][NextAgg]_vars

\* what one row contributes to the total of a column: its value, or 0 when the
\* column is absent or NULL
Contribution(row, key) ==
    IF key \notin DOMAIN row THEN 0
    ELSE IF row[key] = None THEN 0
    ELSE row[key][1]

ExpectedTotal(key) ==
    LET f[n \in 0..Len(meals_response)] ==
            IF n = 0 THEN 0 ELSE f[n - 1] + Contribution(meals_response[n], key)
    IN  f[Len(meals_response)]

\* C8: each daily total is the sum over the day's meal rows with an absent or
\* NULL column counted as 0; a day without meals has four totals of 0.
C8_DailyTotals ==
    (totals # None) =>
        /\ totals.calories = ExpectedTotal("calories")
        /\ totals.protein = ExpectedTotal("protein")
        /\ totals.fat = ExpectedTotal("fat")
        /\ totals.carbs = ExpectedTotal("carbohydrates")
        /\ (meals_response = <<>> =>
              totals = [calories |-> 0, protein |-> 0, fat |-> 0, carbs |-> 0])

\* totals computed for a day with two meals, one of them with a NULL calories
\* column and no carbohydrates column
C8_Witness ==
    /\ totals # None
    /\ Len(meals_response) = 2
    /\ "calories" \in DOMAIN meals_response[1] /\ meals_response[1].calories = None
    /\ "carbohydrates" \notin DOMAIN meals_response[1]
    /\ "carbohydrates" \in DOMAIN meals_response[2]
    /\ meals_response[2].carbohydrates # None
    /\ totals.carbs > 0

(***************************************************************************)
(* Claims about the weekly grouping (SpecWeek).                            *)
(***************************************************************************)
InitWeek ==
    IdleEvalVars /\ IdleAggVars /\ InitWeekVars /\ IdleStoreVars /\ IdleTargetVars
    /\ IdleMergeVars /\ IdleAuthVars
NextWeek == InsightsTab
SpecWeek == InitWeek /\ [][NextWeek]_vars

\* ISO 8601: a week runs from Monday to Sunday and belongs to the year of its
\* Thursday; its number counts the Thursdays of that year
Thursday(dt) == LET o == ToOrdinal(dt) IN o - ((o + 6) % 7) + 3
IsoYear(dt) ==
    LET th == Thursday(dt)
    IN  CHOOSE y \in (dt.y - 1)..(dt.y + 1) :
            DaysBeforeYear(y) < th /\ th <= DaysBeforeYear(y + 1)
IsoWeek(dt) == ((Thursday(dt) - DaysBeforeYear(IsoYear(dt)) - 1) \div 7) + 1
Iso(dt) == <<IsoYear(dt), IsoWeek(dt)>>

DayIndexes == 1..Len(daily_rows)
IsoWeeksPresent == {Iso(daily_rows[i].date) : i \in DayIndexes}

IsoWeekTotal(yw, col) ==
    LET f[n \in 0..Len(daily_rows)] ==
            IF n = 0 THEN 0
            ELSE f[n - 1] + (IF Iso(daily_rows[n].date) = yw THEN daily_rows[n][col] ELSE 0)
    IN  f[Len(daily_rows)]

\* the groups that hold the daily row i: those labelled with its year_week
GroupsOf(i) ==
    LET yw == YearWeek(daily_rows[i].date)
    IN  {k \in 1..Len(weekly_df) : weekly_df[k].year_week = yw}

\* C10: two daily rows are in the same week group exactly if their dates have
\* the same ISO (year, week), and the totals of a group are the sums of the
\* daily totals of exactly the days of that ISO week.
C10_IsoWeekGroups ==
    (weekly_df # None) =>
        /\ \A i \in DayIndexes : Cardinality(GroupsOf(i)) = 1
        /\ \A i, j \in DayIndexes :
             (GroupsOf(i) = GroupsOf(j))
                <=> (Iso(daily_rows[i].date) = Iso(daily_rows[j].date))
        /\ \A i \in DayIndexes :
             LET yw == Iso(daily_rows[i].date)
             IN  \A k \in GroupsOf(i) :
                   \A col \in {"calories", "protein", "fat", "carbs"} :
                      weekly_df[k][col] = IsoWeekTotal(yw, col)
        /\ Len(weekly_df) = Cardinality(IsoWeeksPresent)

\* 2024-12-30 and 2025-01-01 grouped together, next to a day of another week
C10_Witness ==
    /\ weekly_df # None
    /\ \E i, j, l \in DayIndexes :
         /\ daily_rows[i].date = Date(2024, 12, 30)
         /\ daily_rows[j].date = Date(2025, 1, 1)
         /\ daily_rows[l].date = Date(2024, 12, 29)
         /\ GroupsOf(i) = GroupsOf(j)
         /\ GroupsOf(i) # GroupsOf(l)
         /\ \E k \in GroupsOf(i) :
              weekly_df[k].calories = daily_rows[i].calories + daily_rows[j].calories

\* the rows of the weekly table that summarise the week of daily row i
SummariesOf(i) ==
    LET yw == YearWeek(daily_rows[i].date)
    IN  {k \in 1..Len(week_insights) : week_insights[k].Week = yw}

\* ISO week a lies before ISO week b
IsoBefore(a, b) == a[1] < b[1] \/ (a[1] = b[1] /\ a[2] < b[2])

\* C11: the weekly table has exactly one summary per distinct ISO (year, week)
\* of the daily rows, and the summaries are in chronological order of their
\* weeks (week 2 before week 10 of the same year).
C11_OneSummaryPerWeekChronological ==
    (week_insights # None) =>
        /\ Len(week_insights) = Cardinality(IsoWeeksPresent)
        /\ \A i \in DayIndexes : Cardinality(SummariesOf(i)) = 1
        /\ \A i, j \in DayIndexes :
             IsoBefore(Iso(daily_rows[i].date), Iso(daily_rows[j].date)) =>
                \A k \in SummariesOf(i), l \in SummariesOf(j) : k < l

\* the weekly goal of a macro and the difference of week k from it
WeeklyGoal(macro) == 7 * user_targets[macro]
WeeklyDiff(k, macro) == weekly_df[k][macro] - WeeklyGoal(macro)
\* |diff| is at most the goal divided by parts
InBand(k, macro, parts) == Abs(WeeklyDiff(k, macro)) * parts <= WeeklyGoal(macro)

\* C12: for every week the four differences are weekly total - 7 x daily
\* target, and the status is Success exactly if |diff| <= 10 percent of the
\* weekly goal for calories and <= 20 percent for each of protein, fat and
\* carbs, the bounds included; else it is Not in Range.
C12_WeeklyStatus ==
    (week_insights # None) =>
        /\ Len(week_insights) = Len(weekly_df)
        /\ \A k \in 1..Len(week_insights) :
             /\ week_insights[k].CalOverUnder = WeeklyDiff(k, "calories")
             /\ week_insights[k].ProteinOverUnder = WeeklyDiff(k, "protein")
             /\ week_insights[k].FatOverUnder = WeeklyDiff(k, "fat")
             /\ week_insights[k].CarbsOverUnder = WeeklyDiff(k, "carbs")
             /\ week_insights[k].Status =
                  IF /\ InBand(k, "calories", 10)
                     /\ InBand(k, "protein", 5)
                     /\ InBand(k, "fat", 5)
                     /\ InBand(k, "carbs", 5)
                  THEN "Success"
                  ELSE "Not in Range"

\* a week exactly 10 percent under its calorie goal, shown as Success
C12_Witness ==
    /\ week_insights # None
    /\ \E k \in 1..Len(week_insights) :
         /\ WeeklyGoal("calories") > 0
         /\ WeeklyDiff(k, "calories") < 0
         /\ Abs(WeeklyDiff(k, "calories")) * 10 = WeeklyGoal("calories")
         /\ week_insights[k].Status = "Success"

InsightsRan == insights # NotRun

\* C13: when get_user_targets returns no profile, the Insights tab stops at the
\* prompt to set targets and computes no weekly group, goal, difference or
\* status; a weekly table exists only with a profile.
C13_NoRollupWithoutTargets ==
    /\ (InsightsRan /\ user_targets = None) =>
          /\ insights.outcome = "no_targets"
          /\ weekly_df = None
          /\ week_insights = None
    /\ (weekly_df # None \/ week_insights # None) => user_targets # None

\* the tab has stopped at the prompt for a user with days rows and no targets
\* row
C13_Witness ==
    /\ InsightsRan
    /\ targets_response = [data |-> <<>>]
    /\ daily_rows # <<>>
    /\ insights.outcome = "no_targets"
    /\ week_insights = None

\* C17: when the select on 'targets' fails, the caller of get_user_targets
\* gets a failure it can tell from "no target profile configured": the run
\* does not end in the outcome of a user without targets.
C17_TargetsReadFailureDistinct ==
    (InsightsRan /\ targets_response = SelectFailed) =>
        /\ insights.outcome # "no_targets"
        /\ user_targets # get_user_targets([data |-> <<>>])

(***************************************************************************)
(* Claims about the stored days and meals (Spec).                          *)
(***************************************************************************)
Init ==
    IdleEvalVars /\ IdleAggVars /\ IdleWeekVars /\ InitStoreVars /\ IdleTargetVars
    /\ IdleMergeVars /\ IdleAuthVars
Next ==
    \E s \in DOMAIN sess :
        \/ Preview(s)
        \/ Rerun(s)
        \/ Modify(s)
        \/ ClickSave(s)
        \/ SelectDay(s)
        \/ InsertDay(s)
        \/ InsertMeals(s)
        \/ SaveRaises(s)
Spec == Init /\ [][Next]_vars

(***************************************************************************)
(* History: one session that saves previews, lists the history and deletes *)
(* meals and days, over a store with legacy rows.                          *)
(***************************************************************************)
InitHistory ==
    IdleEvalVars /\ IdleAggVars /\ IdleWeekVars /\ InitHistoryVars /\ IdleTargetVars
    /\ IdleMergeVars /\ IdleAuthVars
NextHistory ==
    \E s \in DOMAIN sess :
        \/ Rerun(s)
        \/ ClickSave(s)
        \/ SelectDay(s)
        \/ InsertDay(s)
        \/ InsertMeals(s)
        \/ SaveRaises(s)
        \/ ViewHistory(s)
        \/ ListDay(s)
        \/ DeleteMeal(s)
        \/ DeleteDayMeals(s)
        \/ DeleteDayRow(s)
SpecHistory == InitHistory /\ [][NextHistory]_vars

(***************************************************************************)
(* Concurrent sessions: two sessions of one user whose saves and deletes   *)
(* interleave call by call.                                                *)
(***************************************************************************)
InitSave ==
    IdleEvalVars /\ IdleAggVars /\ IdleWeekVars /\ InitSaveVars /\ IdleTargetVars
    /\ IdleMergeVars /\ IdleAuthVars
NextSave ==
    \E s \in DOMAIN sess :
        \/ Rerun(s)
        \/ ClickSave(s)
        \/ SelectDay(s)
        \/ InsertDay(s)
        \/ InsertMeals(s)
        \/ SaveRaises(s)
        \/ DeleteMeal(s)
        \/ DeleteDayMeals(s)
        \/ DeleteDayRow(s)
SpecSave == InitSave /\ [][NextSave]_vars

\* C9: after any save_meals calls, interleaved calls of two sessions of one
\* user included, there is at most one days row per (user, date).
C9_OneDayPerDate ==
    \A d1, d2 \in days :
        (d1.user_id = d2.user_id /\ d1.date = d2.date) => d1 = d2

\* session s runs parse_daily_meals in this step
Parses(s) ==
    /\ sess[s].pc \in {"idle", "rerun"}
    /\ sess'[s].pc \in {"idle", "rerun"}
    /\ sess'[s] # sess[s]
    /\ sess'[s].arguments # None

\* C16: when the inference call returns a meal with a null nutrition field,
\* parse_daily_meals raises: the run ends in the error branch, no meal list
\* with the null read as 0 becomes current_meals, and no day or meal row is
\* stored; no stored meal row ever has a null number.
C16_NullNutritionRejected ==
    /\ [](\A m \in meals : \A k \in NumberFields : m[k] # None)
    /\ [][\A s \in DOMAIN sess :
             (Parses(s) /\ HasNull(sess'[s].arguments)) =>
                /\ sess'[s].error
                /\ sess'[s].current_meals = sess[s].current_meals
                /\ days' = days
                /\ meals' = meals]_vars

\* a session whose first preview got a null protein has no current_meals and
\* shows the error, while the store holds the meals of an earlier save
C16_Witness ==
    \E s \in DOMAIN sess :
        /\ sess[s].pc = "idle"
        /\ sess[s].arguments # None
        /\ HasNull(sess[s].arguments)
        /\ sess[s].error
        /\ sess[s].current_meals = None
        /\ meals # {}

\* session s runs the script because Save was clicked
SaveClicked(s) ==
    /\ sess[s].pc = "idle"
    /\ sess'[s].clicked = "save"
    /\ sess'[s] # sess[s]

\* session s runs the script with no button of the tab clicked
Reloads(s) ==
    /\ sess[s].pc = "idle"
    /\ sess'[s].clicked = "rerun"
    /\ sess'[s] # sess[s]

\* session s runs the script because "Preview Meals" submitted a log
PreviewSubmitted(s) ==
    /\ sess[s].pc = "idle"
    /\ sess'[s].clicked = "preview"
    /\ sess'[s] # sess[s]

\* save_meals of session s raises in this step
Raises(s) ==
    /\ sess[s].pc \in {"select_day", "insert_day", "insert_meals"}
    /\ sess'[s].pc = "idle"
    /\ sess'[s].raised = sess[s].raised + 1

\* C21: the previewed meal list in the session state survives a run that no
\* button triggered, and a click on Save discards it: the click starts the
\* save_meals call whose return deletes current_meals.
C21_EditSurvivesReloadDiscardedBySave ==
    [][\A s \in DOMAIN sess :
         /\ (Reloads(s) /\ sess[s].current_meals # None) =>
                sess'[s].current_meals = sess[s].current_meals
         /\ SaveClicked(s) =>
                sess'[s].pc = "select_day" \/ sess'[s].current_meals = None
         /\ (sess[s].pc = "insert_meals" /\ sess'[s].pc = "rerun") =>
                sess'[s].current_meals = None]_vars

\* C23: a click on Save under a displayed preview calls save_meals with the
\* previewed meals and the selected entry date, with or without an image.
C23_SaveCallsSaveMeals ==
    [][\A s \in DOMAIN sess :
         (SaveClicked(s) /\ Displayed(sess[s])) =>
            /\ sess'[s].pc = "select_day"
            /\ sess'[s].meals = sess[s].current_meals
            /\ sess'[s].entry_date = sess[s].entry_date]_vars

\* C24: every submitted log is parsed, and the list parsed from it is the
\* one in the session state after the run: it replaces an earlier preview
\* that was not saved.
C24_PreviewIsOfLastSubmittedLog ==
    [][\A s \in DOMAIN sess :
         PreviewSubmitted(s) =>
            /\ sess'[s].arguments # None
            /\ \/ sess'[s].error
               \/ sess'[s].current_meals = MealObjects(sess'[s].arguments)]_vars

\* C25: when save_meals raises, no days row that the call inserted is left in
\* the table: the rows are those from before the call.
C25_SaveMealsAllOrNothing ==
    [][\A s \in DOMAIN sess :
         Raises(s) =>
            /\ meals' = meals
            /\ ~(sess[s].day_created /\ \E d \in days' : d.id = sess[s].day_id)]_vars

\* the days rows of the user for a date, and the meal rows that hang on them
DaysOf(dt) == select_data(days, [date |-> dt, user_id |-> UserId])
MealsOf(dt) == {m \in meals : \E d \in DaysOf(dt) : m.day_id = d.id}

\* C20: two submissions for one (user, date) lose no update: whatever the
\* interleaving of their reads and writes, once both have completed, the
\* aggregate stored for that date holds the meals of both.
C20_NoLostUpdate ==
    (\A s \in Sessions : sess[s].pc = "idle" /\ sess[s].saves >= 1) =>
        \A dt \in EntryDates :
            MealsOf(dt) # {} =>
                \E d \in DaysOf(dt) : \A m \in MealsOf(dt) : m.day_id = d.id

\* C26: under every interleaving of the save_meals, delete-meal and
\* delete-day calls of a user's sessions, every stored meal row refers to a
\* stored day row.
C26_MealsReferToStoredDays ==
    \A m \in meals : \E d \in days : d.id = m.day_id

\* the sum of a column over the meal rows stored for a day, NULL counted as 0
RECURSIVE StoredSum(_, _)
StoredSum(rows, key) ==
    IF rows = {} THEN 0
    ELSE LET row == CHOOSE r \in rows : TRUE
         IN  (IF row[key] = None THEN 0 ELSE Val(row[key]))
               + StoredSum(rows \ {row}, key)

StoredMeals(day_id) == {m \in meals : m.day_id = day_id /\ m.user_id = UserId}

StoredTotals(day_id) ==
    LET rows == StoredMeals(day_id)
    IN  [calories |-> StoredSum(rows, "calories"),
         protein  |-> StoredSum(rows, "protein"),
         fat      |-> StoredSum(rows, "fat"),
         carbs    |-> StoredSum(rows, "carbohydrates")]

\* session s lists the next day of its days_response in this step
ListsDay(s) ==
    /\ sess[s].pc = "list_day"
    /\ sess'[s] # sess[s]

\* C22: after any saves, meal deletions and day deletions, the totals the
\* history view produces for a stored day are the field-wise sums over the
\* meal rows stored for that day at that moment; a days row holds no total.
C22_TotalsAreSumsOfStoredMeals ==
    /\ [](\A d \in days : DOMAIN d = {"id", "date", "user_id"})
    /\ [][\A s \in DOMAIN sess :
             ListsDay(s) =>
                LET day == Head(sess[s].pending)
                IN  /\ day \in days
                    /\ sess'[s].shown.day_id = day.id
                    /\ sess'[s].shown.totals = StoredTotals(day.id)]_vars

\* a day is listed with the 300 calories of one oatmeal after a save has
\* returned and the day row that a save inserted has been deleted
C22_Witness ==
    \E s \in DOMAIN sess :
        /\ sess[s].shown # None
        /\ sess[s].shown.totals.calories = 300
        /\ sess[s].saves >= 1
        /\ next_id.days > 3
        /\ \A d \in days : d.id # 3

\* C28: a day with a meal whose calories are NULL is listed like any other:
\* its totals count the NULL as 0, its meals are shown, and the listing goes
\* on to the following days.
C28_NullCaloriesTolerated ==
    [][\A s \in DOMAIN sess :
         (ListsDay(s) /\ \E m \in StoredMeals(Head(sess[s].pending).id) :
                             m.calories = None) =>
            LET day == Head(sess[s].pending)
            IN  /\ ~sess'[s].aborted
                /\ sess'[s].shown.totals = StoredTotals(day.id)
                /\ sess'[s].shown.listed = Cardinality(StoredMeals(day.id))
                /\ sess'[s].pending = Tail(sess[s].pending)]_vars

(***************************************************************************)
(* Claims about the stored targets (SpecTargets).                          *)
(***************************************************************************)
InitTargets ==
    IdleEvalVars /\ IdleAggVars /\ IdleWeekVars /\ IdleStoreVars /\ InitTargetVars
    /\ IdleMergeVars /\ IdleAuthVars
NextTargets ==
    \E s \in Sessions :
        \/ SubmitTargets(s)
        \/ SelectTargets(s)
        \/ WriteTargets(s)
SpecTargets == InitTargets /\ [][NextTargets]_vars

\* the values get_user_targets may return for a table: the select has no
\* order, so targets[0] is any row of the user
UserTargetsRead(table) ==
    LET rows == select_data(table, [user_id |-> UserId])
    IN  IF rows = {} THEN {None}
        ELSE {get_user_targets([data |-> <<row>>]) : row \in rows}

\* session s ends a save_user_targets call that no other write has interleaved
ReturnsUninterleaved(s) ==
    /\ tsess[s].pc = "write_targets"
    /\ tsess'[s].pc = "idle"
    /\ tsess[s].existing_targets = select_data(targets_table, [user_id |-> UserId])

\* C14: save_user_targets is idempotent: after a call with a profile
\* get_user_targets returns that profile, and a second call with the same
\* profile right after it leaves the stored targets as the first call left
\* them.
C14_SaveTargetsIdempotent ==
    [][\A s \in Sessions :
          ReturnsUninterleaved(s) =>
             /\ UserTargetsRead(targets_table') = {tsess[s].targets_dict}
             /\ (UserTargetsRead(targets_table) = {tsess[s].targets_dict}
                   => targets_table' = targets_table)]_vars

\* one session has saved the same profile twice in a row, the other none, and
\* the table holds that profile in one row
C14_Witness ==
    \E s \in Sessions :
        /\ tsess[s].pc = "idle"
        /\ Len(tsess[s].returned) = 2
        /\ tsess[s].returned[1] = tsess[s].returned[2]
        /\ \A o \in Sessions \ {s} : tsess[o] = IdleTargetsSession
        /\ Cardinality(targets_table) = 1
        /\ UserTargetsRead(targets_table) = {tsess[s].returned[2]}

\* C15: after any save_user_targets calls, interleaved calls of two sessions
\* of one user included, there is at most one targets row per user.
C15_OneTargetsRowPerUser ==
    \A r1, r2 \in targets_table : r1.user_id = r2.user_id => r1 = r2

(***************************************************************************)
(* Claims about the entry merger (SpecMerge).                              *)
(***************************************************************************)
InitMerge ==
    IdleEvalVars /\ IdleAggVars /\ IdleWeekVars /\ IdleStoreVars /\ IdleTargetVars
    /\ InitMergeVars /\ IdleAuthVars
NextMerge == MergeFirst \/ MergeSecond
SpecMerge == InitMerge /\ [][NextMerge]_vars

BothMerged == incoming.merged = 2
ExistingPresent == incoming.existing # None
\* a number of hundredths with at most one decimal place
OneDecimal(x) == x % 10 = 0

\* C18 as stated: for every existing entry E and incoming A and B, every
\* accumulating field is the same after merge(merge(E, A), B) and after
\* merge(merge(E, B), A).
C18_TotalsCommute ==
    (BothMerged /\ ExistingPresent) =>
        \A k \in AccumulatingFields : stored_ab[k] = stored_ba[k]

\* C18: for every existing entry E and incoming A and B, an accumulating field
\* whose values in E, A and B have at most one decimal place is the same after
\* merge(merge(E, A), B) and after merge(merge(E, B), A): the sum of the three.
C18_OneDecimalTotalsCommute ==
    (BothMerged /\ ExistingPresent) =>
        \A k \in AccumulatingFields :
            (/\ OneDecimal(incoming.existing[k])
             /\ OneDecimal(incoming.a[k])
             /\ OneDecimal(incoming.b[k])) =>
                /\ stored_ab[k] = stored_ba[k]
                /\ stored_ab[k] = incoming.existing[k] + incoming.a[k] + incoming.b[k]

\* both orders merged for three entries with different calories of one decimal
\* place
C18_Witness ==
    /\ BothMerged /\ ExistingPresent
    /\ incoming.existing.calories > 0
    /\ incoming.a.calories > incoming.existing.calories
    /\ incoming.b.calories > incoming.a.calories
    /\ stored_ab.calories = stored_ba.calories
    /\ stored_ab.calories > incoming.b.calories

\* the entry merged into the store of order A-B, and into that of order B-A, by
\* the next merge
NextAB == IF incoming.merged = 0 THEN incoming.a ELSE incoming.b
NextBA == IF incoming.merged = 0 THEN incoming.b ELSE incoming.a

\* the rule of C19 for one store and the entry merged into it
LastNonNull(stored, stored_after, new_entry) ==
    \A k \in PointInTimeFields :
        /\ stored_after[k] =
             IF new_entry[k] # None THEN new_entry[k]
             ELSE IF stored = None THEN None
             ELSE stored[k]
        /\ (stored # None /\ stored[k] # None) => stored_after[k] # None

\* C19: a merge sets every point-in-time field (weight, bmi, sleep) to the
\* incoming value if that is not null, else to the existing value; over any
\* sequence of merges a field that is not null never becomes null again.
C19_PointInTimeLastNonNull ==
    [][(incoming'.merged = incoming.merged + 1) =>
          /\ LastNonNull(stored_ab, stored_ab', NextAB)
          /\ LastNonNull(stored_ba, stored_ba', NextBA)]_vars

\* an entry with a weight has had an entry without weight merged into it and
\* has kept the weight, while its sleep has been replaced
C19_Witness ==
    /\ incoming.merged >= 1
    /\ ExistingPresent
    /\ incoming.existing.weight # None
    /\ incoming.existing.sleep # None
    /\ incoming.a.weight = None
    /\ incoming.a.sleep # None
    /\ incoming.a.sleep # incoming.existing.sleep
    /\ stored_ab.weight = incoming.existing.weight
    /\ stored_ab.sleep = incoming.a.sleep

(***************************************************************************)
(* Authentication: the logins and logouts of two browser sessions.         *)
(***************************************************************************)
InitAuth ==
    IdleEvalVars /\ IdleAggVars /\ IdleWeekVars /\ IdleStoreVars /\ IdleTargetVars
    /\ IdleMergeVars /\ InitAuthVars
NextAuth ==
    \E s \in Sessions :
        \/ Login(s)
        \/ Logout(s)
        \/ RecoverPassword(s)
SpecAuth == InitAuth /\ [][NextAuth]_vars

\* the Logout of session s completes in this step
LogoutCompletes(s) ==
    /\ session_state[s].authenticated
    /\ ~session_state'[s].authenticated

\* C27: after a completed Logout the session state holds authenticated =
\* False, user = None and no stored password, and
\* initialize_supabase_client gets no client from it.
C27_LogoutClearsSession ==
    [][\A s \in Sessions :
         LogoutCompletes(s) =>
            /\ session_state'[s].user = None
            /\ session_state'[s].user_password = NoPassword
            /\ ~initialize_supabase_client(session_state'[s], TRUE)]_vars

====
